---- MODULE Spec2Model ----
(***************************************************************************)
(* urls2disk: Client::get_documents (src/src/client.rs) and the Semaphore  *)
(* it dispatches under (src/src/semaphore.rs).                             *)
(*                                                                         *)
(* One Client is modelled together with the caller's document slice, the   *)
(* file system under the documents' paths, the threads of one              *)
(* get_documents call (the calling thread, the ticker thread, one thread   *)
(* per dispatched document) and the two mpsc channels of the call.         *)
(* A clone of the Client (Client derives Clone and shares the Semaphore    *)
(* through its Arc) may run a call of its own, and a ClientBuilder holds   *)
(* the wkhtmltopdf Settings (src/src/wkhtmltopdf.rs), whose delay is        *)
(* converted by duration_to_millis (src/src/utils.rs).                     *)
(* A critical section of a Mutex is one atomic step.  Time is counted in   *)
(* ticks since the call started; thread::sleep lasts at least the          *)
(* requested duration and every other step may take no time at all.        *)
(***************************************************************************)
EXTENDS Integers, Sequences, FiniteSets, TLC

\* ---------------------------------------------------------------- bounds
\* the longest document slice handed to get_documents
MaxDocs == 2
\* the three maxima the Client is built with (Client::new)
MaxRequestsPerSecond == 1
MaxThreadsCpu == 1
MaxThreadsIo == 1
\* the clock stops after this many ticker intervals within one call, and the
\* resets of one call are counted up to this number
MaxIntervals == 1
\* the number of settings given to the ClientBuilder
MaxSettings == 2
\* the bits of the unsigned word that stands for u64: the arithmetic of
\* duration_to_millis is done in words of this width, so that a product
\* that does not fit is within reach
WordBits == 12

\* thread::sleep(Duration::from_millis(1000)) in clock ticks of 500 ms
TicksPerInterval == 2

MaxTime == MaxIntervals * TicksPerInterval

\* ---------------------------------------------------------------- values
\* what a path holds: nothing, something that exists but cannot be opened and
\* read as a file, or a file with its bytes
Contents == {"cached", "html", "pdf", "partial"}
FileStates == {"Absent", "Unreadable"} \cup Contents

\* Option<Vec<u8>> of a document
Payloads == {"None"} \cup Contents

Positions == 1..MaxDocs

VARIABLES
    sem,          \* the Semaphore shared by the Client and its clones
    documents,    \* the caller's slice: records [path, wkhtmltopdf, bytes]
    storage,      \* the file system: path -> FileStates
    mainPc,       \* where the thread that called get_documents is
    idx,          \* the position the dispatch loop is at
    children,     \* the positions pushed to the children Vec, in order
    job,          \* position -> state of the thread spawned for it
    outcome,      \* position -> the Result computed for it ("none" before)
    chan2,        \* the results sent on s2 and not yet received on r2
    results,      \* the results Vec of the receive loop
    stopSent,     \* s1.send(()) has happened
    tickerPc,     \* where the ticker thread is
    wakeAt,       \* the earliest tick at which the ticker's sleep ends
    now,          \* ticks since the call started
    lastResult,   \* how the last call ended
    callNo,       \* the number of calls started
    hist,         \* history of the current call, read by the properties only
    clone,        \* a get_documents call on a clone of the Client, which shares
                  \* the Semaphore: where its calling thread is and the thread
                  \* slots its jobs hold
    builder,      \* the ClientBuilder: the number of settings given to it and
                  \* the ones in force, the last given of each variant
    conv          \* the Duration handed to duration_to_millis and what the
                  \* call made of it; empty while there was no such call

vars == <<sem, documents, storage, mainPc, idx, children, job, outcome, chan2,
          results, stopSent, tickerPc, wakeAt, now, lastResult, callNo, hist, clone,
          builder, conv>>

\* ------------------------------------------------------------- Semaphore
\* increment_requests without its wait loop
requests_free_no_wait(s) == TRUE

\* the loop condition of increment_requests negated: the caller may pass
requests_free(s) == s.requests < s.max_requests_per_second

increment_requests(s) == [s EXCEPT !.requests = @ + 1]

reset_requests(s) == [s EXCEPT !.requests = 0]

\* increment_threads_cpu / increment_threads_io without their wait loops
threads_free_no_wait(s, wkhtmltopdf) == TRUE

\* one pool of threads for both classes, bounded by max_threads_io
threads_free_one_pool(s, wkhtmltopdf) == s.threads_cpu + s.threads_io < s.max_threads_io

\* the loop conditions with `<=` where `<` is meant: one slot too many
threads_free_one_more(s, wkhtmltopdf) ==
    IF wkhtmltopdf THEN s.threads_cpu <= s.max_threads_cpu
                   ELSE s.threads_io <= s.max_threads_io

\* the loop conditions of increment_threads_cpu / increment_threads_io negated
threads_free(s, wkhtmltopdf) ==
    IF wkhtmltopdf THEN s.threads_cpu < s.max_threads_cpu
                   ELSE s.threads_io < s.max_threads_io

increment_threads(s, wkhtmltopdf) ==
    IF wkhtmltopdf THEN [s EXCEPT !.threads_cpu = @ + 1]
                   ELSE [s EXCEPT !.threads_io = @ + 1]

\* a release that gives the request slot back together with the thread slot
decrement_threads_and_requests(s, wkhtmltopdf) ==
    IF wkhtmltopdf
    THEN [s EXCEPT !.threads_cpu = @ - 1, !.requests = IF @ > 0 THEN @ - 1 ELSE 0]
    ELSE [s EXCEPT !.threads_io = @ - 1, !.requests = IF @ > 0 THEN @ - 1 ELSE 0]

decrement_threads(s, wkhtmltopdf) ==
    IF wkhtmltopdf THEN [s EXCEPT !.threads_cpu = @ - 1]
                   ELSE [s EXCEPT !.threads_io = @ - 1]

\* where a thread blocked in Condvar::wait on the condvar cv is
wait_on(cv) ==
    IF cv = "requests" THEN "wait_requests"
    ELSE IF cv = "threads_cpu" THEN "wait_threads_cpu"
    ELSE "wait_threads_io"

\* the calling threads blocked on the condvar cv: the calling thread of this
\* get_documents call and the calling thread of the call on the clone
waiters(cv, mpc, cpc) ==
    {t \in {"main"} : mpc = wait_on(cv)} \cup {t \in {"clone"} : cpc = wait_on(cv)}

\* a release or a reset that notifies nobody
notify_nobody(cv, mpc, cpc) == {{}}

\* Condvar::notify_one on the condvar cv: the sets of threads the call may
\* wake, one waiter when there is one and nobody otherwise
notify_one(cv, mpc, cpc) ==
    LET ws == waiters(cv, mpc, cpc) IN IF ws = {} THEN {{}} ELSE {{t} : t \in ws}

\* a thread that leaves Condvar::wait tests its loop condition again
retest(pc) == IF pc = "wait_requests" THEN "inc_requests" ELSE "inc_threads"

\* the position of thread t after the threads in `woken` have been woken
wake(woken, t, pc) == IF t \in woken THEN retest(pc) ELSE pc

\* ------------------------------------------------------------ file system
path_exists(f) == f # "Absent"

\* File::open followed by one short read instead of read_to_end
read_file_short(f) ==
    IF f \in Contents THEN [ok |-> TRUE, bytes |-> "partial"]
                      ELSE [ok |-> FALSE, bytes |-> "None"]

\* File::open followed by read_to_end
read_file(f) ==
    IF f \in Contents THEN [ok |-> TRUE, bytes |-> f]
                      ELSE [ok |-> FALSE, bytes |-> "None"]

\* ------------------------------------------------------------ collaborators
\* what the server does with one GET
Responses == {"send_err", "200", "200_body_err", "204", "404"}

\* whether a response came and `response.status() == StatusCode::Ok`
status(resp) == IF resp \in {"200", "200_body_err"} THEN "Ok" ELSE "other"

\* get_url that takes every 2xx status (StatusCode::is_success) as success
get_url_any_2xx(resp) ==
    IF resp \in {"200", "204"} THEN [ok |-> TRUE, bytes |-> "html"]
                              ELSE [ok |-> FALSE, bytes |-> "None"]

\* Client::get_url
get_url(resp) ==
    IF resp = "200" THEN [ok |-> TRUE, bytes |-> "html"]
                    ELSE [ok |-> FALSE, bytes |-> "None"]

\* how File::create and write_all go for a raw job
Writes == {"ok", "create_err", "write_err"}

\* a raw job that attaches the bytes but never writes the file
raw_job_no_write(resp, w, f) ==
    LET got == get_url(resp) IN
    IF ~got.ok THEN [ok |-> FALSE, set |-> FALSE, bytes |-> "None", file |-> f, status |-> status(resp)]
    ELSE [ok |-> TRUE, set |-> TRUE, bytes |-> got.bytes, file |-> f, status |-> status(resp)]

\* a raw job that attaches the bytes before it writes the file
raw_job_sets_early(resp, w, f) ==
    LET got == get_url(resp) IN
    IF ~got.ok THEN [ok |-> FALSE, set |-> FALSE, bytes |-> "None", file |-> f, status |-> status(resp)]
    ELSE IF w = "create_err" THEN [ok |-> FALSE, set |-> TRUE, bytes |-> got.bytes, file |-> f, status |-> status(resp)]
    ELSE IF w = "write_err" THEN [ok |-> FALSE, set |-> TRUE, bytes |-> got.bytes, file |-> "partial", status |-> status(resp)]
    ELSE [ok |-> TRUE, set |-> TRUE, bytes |-> got.bytes, file |-> got.bytes, status |-> status(resp)]

\* the closure of a raw job: get_url, File::create, write_all, set_bytes.
\* f is what the path holds; the result says what it holds afterwards
raw_job(resp, w, f) ==
    LET got == get_url(resp) IN
    IF ~got.ok \/ w = "create_err" THEN [ok |-> FALSE, set |-> FALSE, bytes |-> "None", file |-> f, status |-> status(resp)]
    ELSE IF w = "write_err" THEN [ok |-> FALSE, set |-> FALSE, bytes |-> "None", file |-> "partial", status |-> status(resp)]
    ELSE [ok |-> TRUE, set |-> TRUE, bytes |-> got.bytes, file |-> got.bytes, status |-> status(resp)]

\* what happens to the wkhtmltopdf process: whether it ran, how it exited and
\* what it left at the destination
ToolRuns ==
    [run : {"bad_path", "spawn_err", "wait_err"}, code : {"none"}, writes : {"nothing"}]
    \cup [run : {"exited"}, code : {"0", "1", "none"},
          writes : {"nothing", "pdf"}]

\* Client::get_pdf
get_pdf(tool, f) ==
    LET file == IF tool.run = "exited" /\ tool.writes # "nothing" THEN tool.writes ELSE f
        back == read_file(file)
    IN  IF tool.run = "exited" /\ tool.code = "0" /\ back.ok
        THEN [ok |-> TRUE, bytes |-> back.bytes, file |-> file]
        ELSE [ok |-> FALSE, bytes |-> "None", file |-> file]

\* a conversion job that attaches what get_pdf returned before it tests it
pdf_job_sets_unchecked(tool, f) ==
    LET got == get_pdf(tool, f) IN
    [ok |-> got.ok, set |-> TRUE, bytes |-> got.bytes, file |-> got.file, status |-> "none"]

\* the closure of a conversion job: get_pdf, set_bytes
pdf_job(tool, f) ==
    LET got == get_pdf(tool, f) IN
    [ok |-> got.ok, set |-> got.ok, bytes |-> got.bytes, file |-> got.file, status |-> "none"]

\* every result the closure of a job can have, over all the server, the file
\* system and the wkhtmltopdf process can do
job_results(wkhtmltopdf, f) ==
    IF wkhtmltopdf THEN {pdf_job(tool, f) : tool \in ToolRuns}
                   ELSE {raw_job(resp, w, f) : resp \in Responses, w \in Writes}

\* ------------------------------------------------------------ documents
\* reverses a sequence
Reverse(q) == [k \in 1..Len(q) |-> q[Len(q) + 1 - k]]

\* a sort on the same key that does not keep equal elements in their order
sort_unstable_by_wkhtmltopdf(docs) ==
    Reverse(SelectSeq(docs, LAMBDA d : ~d.wkhtmltopdf))
        \o SelectSeq(docs, LAMBDA d : d.wkhtmltopdf)

\* get_documents without the sort: the slice is walked as the caller gave it
sort_by_nothing(docs) == docs

\* documents.sort_by(|a, b| a.wkhtmltopdf().cmp(&b.wkhtmltopdf())): a stable
\* sort on a boolean key, false before true
sort_by_wkhtmltopdf(docs) ==
    SelectSeq(docs, LAMBDA d : ~d.wkhtmltopdf) \o SelectSeq(docs, LAMBDA d : d.wkhtmltopdf)

\* Document::set_bytes(Some(bytes)) on the document at position i
set_bytes(docs, i, bytes) == [docs EXCEPT ![i].bytes = bytes]

\* the receiver r2 lives until the closure given to crossbeam::scope returns
r2_alive(pc) == pc \notin {"join", "idle"}

\* a ticker that leaves its loop after the first reset, signal or not
try_recv_never_empty(sent, pc) == IF sent THEN "Ok" ELSE "Disconnected"

\* TryRecvError / Ok of r1.try_recv(): s1 is dropped when the closure returns
try_recv(sent, pc) ==
    IF sent THEN "Ok" ELSE IF pc \in {"join", "idle"} THEN "Disconnected" ELSE "Empty"

Running == {"run", "release"}

\* a scope that returns without joining its threads
scope_not_joined(tpc, jb) == TRUE

\* a scope that joins the job threads and leaves the ticker behind
scope_joined_jobs_only(tpc, jb) == \A i \in Positions : jb[i] \notin Running

\* crossbeam::scope joins every thread spawned in the scope before it returns
scope_joined(tpc, jb) == tpc = "done" /\ \A i \in Positions : jb[i] \notin Running

\* `for result in results { result?; }`, or the panic of a joined thread
reduce(res, jb) ==
    IF \E i \in Positions : jb[i] = "panicked" THEN "panic"
    ELSE IF \E k \in 1..Len(res) : ~res[k] THEN "Err"
    ELSE "Ok"

\* where the calling thread goes after the loop body for position i
after(i, docs) == IF i < Len(docs) THEN "dispatch" ELSE "recv"

\* ------------------------------------------------- wkhtmltopdf settings
\* Orientation and PageSize: the variants by their names
Orientations == {"Landscape", "Portrait"}

PageSizes ==
    {"A0", "A1", "A2", "A3", "A4", "A5", "A6", "A7", "A8", "A9",
     "B0", "B1", "B2", "B3", "B4", "B5", "B6", "B7", "B8", "B9", "B10",
     "C5E", "Comm10E", "DLE", "Executive", "Folio", "Ledger", "Legal", "Letter", "Tabloid"}

\* impl From<Orientation> for String
orientation_into(orientation) == orientation

\* impl From<PageSize> for String
page_size_into(page_size) == IF page_size = "Ledger" THEN "Ledgar" ELSE page_size

\* a Duration: whole seconds and the nanoseconds of the second begun
Durations == {[secs |-> 0, nanos |-> 200000000], [secs |-> 1, nanos |-> 500999999],
              [secs |-> 0, nanos |-> 0]}

\* the largest value of the unsigned word
U64Max == 2^WordBits - 1

\* Duration::from_millis
from_millis(millis) == [secs |-> millis \div 1000, nanos |-> (millis % 1000) * 1000000]

\* utils::duration_to_millis: `(seconds * 1_000) + (nanos / 1_000_000)` in
\* unsigned words, the value a build without overflow checks returns
duration_to_millis(duration) ==
    (duration.secs * 1000 + duration.nanos \div 1000000) % (U64Max + 1)

\* the product or the sum of duration_to_millis does not fit the word
overflows(duration) == duration.secs * 1000 + duration.nanos \div 1000000 > U64Max

\* what a call of duration_to_millis does: it returns the value; when the
\* arithmetic overflows, a build with overflow checks panics and a build
\* without them returns the wrapped value
duration_to_millis_outcomes(duration) ==
    IF overflows(duration)
    THEN {[panicked |-> TRUE, millis |-> 0],
          [panicked |-> FALSE, millis |-> duration_to_millis(duration)]}
    ELSE {[panicked |-> FALSE, millis |-> duration_to_millis(duration)]}

\* usize::to_string and u64::to_string
to_string(n) == ToString(n)

\* format!("{:.2}", zoom) of an f32 that is a whole number of hundredths
format_zoom(zoom) ==
    ToString(zoom \div 100) \o "." \o ToString((zoom % 100) \div 10) \o ToString(zoom % 10)

\* the values a caller gives the options that carry one; zoom in hundredths
DpiValues == {96, 300}
ImageDpiValues == {600, 72}
ImageQualityValues == {94, 50}
MarginValues == {"0.5in", "10mm"}
ZoomValues == {100, 350, 75}

\* Settings::default (default_zoom() outside macOS)
DefaultSettings ==
    [disable_external_links |-> FALSE, disable_javascript |-> FALSE, enable_forms |-> FALSE,
     dpi |-> 96, grayscale |-> FALSE, image_dpi |-> 600, image_quality |-> 94,
     low_quality |-> FALSE, javascript_delay |-> [secs |-> 0, nanos |-> 200000000],
     margin_bottom |-> "0.5in", margin_left |-> "0.5in", margin_right |-> "0.5in",
     margin_top |-> "0.5in", no_background |-> FALSE, no_images |-> FALSE,
     no_pdf_compression |-> FALSE, orientation |-> "Portrait", page_size |-> "Letter",
     zoom |-> 100]

\* enum Setting: a variant and its value
Setting ==
    [variant : {"DisableExternalLinks", "DisableJavascript", "EnableForms", "Grayscale",
                "LowQuality", "NoBackground", "NoImages", "NoPdfCompression"}, v : BOOLEAN]
    \cup [variant : {"Dpi"}, v : DpiValues]
    \cup [variant : {"ImageDpi"}, v : ImageDpiValues]
    \cup [variant : {"ImageQuality"}, v : ImageQualityValues]
    \cup [variant : {"JavascriptDelay"}, v : Durations]
    \cup [variant : {"MarginBottom", "MarginLeft", "MarginRight", "MarginTop"}, v : MarginValues]
    \cup [variant : {"Orientation"}, v : Orientations]
    \cup [variant : {"PageSize"}, v : PageSizes]
    \cup [variant : {"Zoom"}, v : ZoomValues]

\* Settings::set
set(self, setting) ==
    CASE setting.variant = "DisableExternalLinks" -> [self EXCEPT !.disable_external_links = setting.v]
      [] setting.variant = "DisableJavascript" -> [self EXCEPT !.disable_javascript = setting.v]
      [] setting.variant = "EnableForms" -> [self EXCEPT !.enable_forms = setting.v]
      [] setting.variant = "Dpi" -> [self EXCEPT !.dpi = setting.v]
      [] setting.variant = "Grayscale" -> [self EXCEPT !.grayscale = setting.v]
      [] setting.variant = "ImageDpi" -> [self EXCEPT !.image_dpi = setting.v]
      [] setting.variant = "ImageQuality" -> [self EXCEPT !.image_quality = setting.v]
      [] setting.variant = "LowQuality" -> [self EXCEPT !.low_quality = setting.v]
      [] setting.variant = "JavascriptDelay" -> [self EXCEPT !.javascript_delay = setting.v]
      [] setting.variant = "MarginBottom" -> [self EXCEPT !.margin_bottom = setting.v]
      [] setting.variant = "MarginLeft" -> [self EXCEPT !.margin_left = setting.v]
      [] setting.variant = "MarginRight" -> [self EXCEPT !.margin_right = setting.v]
      [] setting.variant = "MarginTop" -> [self EXCEPT !.margin_top = setting.v]
      [] setting.variant = "NoBackground" -> [self EXCEPT !.no_background = setting.v]
      [] setting.variant = "NoImages" -> [self EXCEPT !.no_images = setting.v]
      [] setting.variant = "NoPdfCompression" -> [self EXCEPT !.no_pdf_compression = setting.v]
      [] setting.variant = "Orientation" -> [self EXCEPT !.orientation = setting.v]
      [] setting.variant = "PageSize" -> [self EXCEPT !.page_size = setting.v]
      [] setting.variant = "Zoom" -> [self EXCEPT !.zoom = setting.v]

\* the Settings of a ClientBuilder: Settings::default with every setting in
\* force applied by Settings::set
RECURSIVE apply_settings(_, _)
apply_settings(self, settings) ==
    IF settings = {} THEN self
    ELSE LET setting == CHOOSE x \in settings : TRUE
         IN  apply_settings(set(self, setting), settings \ {setting})

wkhtmltopdf_settings(b) == apply_settings(DefaultSettings, b.in_force)

\* `if self.flag { arguments.push(name) }`
push_if(flag, name) == IF flag THEN <<name>> ELSE <<>>

\* to_arguments with `self.grayscale` tested where `self.low_quality` is meant
to_arguments_wrong_flag(self) ==
    push_if(self.disable_external_links, "--disable-external-links")
    \o push_if(self.disable_javascript, "--disable-javascript")
    \o push_if(self.enable_forms, "--enable-forms")
    \o <<"--dpi", to_string(self.dpi)>>
    \o push_if(self.grayscale, "--grayscale")
    \o <<"--image-dpi", to_string(self.image_dpi)>>
    \o <<"--image-quality", to_string(self.image_quality)>>
    \o push_if(self.grayscale, "--low-quality")
    \o <<"--javascript-delay", to_string(duration_to_millis(self.javascript_delay))>>
    \o <<"--margin-bottom", self.margin_bottom>>
    \o <<"--margin-left", self.margin_left>>
    \o <<"--margin-right", self.margin_right>>
    \o <<"--margin-top", self.margin_top>>
    \o push_if(self.no_background, "--no-background")
    \o push_if(self.no_images, "--no-images")
    \o push_if(self.no_pdf_compression, "--no-pdf-compression")
    \o <<"--orientation", orientation_into(self.orientation)>>
    \o <<"--page-size", page_size_into(self.page_size)>>
    \o <<"--zoom", format_zoom(self.zoom)>>

\* Settings::to_arguments
to_arguments(self) ==
    push_if(self.disable_external_links, "--disable-external-links")
    \o push_if(self.disable_javascript, "--disable-javascript")
    \o push_if(self.enable_forms, "--enable-forms")
    \o <<"--dpi", to_string(self.dpi)>>
    \o push_if(self.grayscale, "--grayscale")
    \o <<"--image-dpi", to_string(self.image_dpi)>>
    \o <<"--image-quality", to_string(self.image_quality)>>
    \o push_if(self.low_quality, "--low-quality")
    \o <<"--javascript-delay", to_string(duration_to_millis(self.javascript_delay))>>
    \o <<"--margin-bottom", self.margin_bottom>>
    \o <<"--margin-left", self.margin_left>>
    \o <<"--margin-right", self.margin_right>>
    \o <<"--margin-top", self.margin_top>>
    \o push_if(self.no_background, "--no-background")
    \o push_if(self.no_images, "--no-images")
    \o push_if(self.no_pdf_compression, "--no-pdf-compression")
    \o <<"--orientation", orientation_into(self.orientation)>>
    \o <<"--page-size", page_size_into(self.page_size)>>
    \o <<"--zoom", format_zoom(self.zoom)>>

\* default_wkhtmltopdf_zoom(), on macOS and elsewhere
DefaultWkhtmltopdfZooms == {"3.5", "1.0"}

\* Document::url and Document::path().to_str() of a document
url_as_str(d) == "http://host/" \o ToString(d.path)
path_to_str(d) == "out/" \o ToString(d.path)

\* the argument vector Client::get_pdf gives Command::args, for a Client
\* whose wkhtmltopdf_zoom is `zoom`
get_pdf_arguments(zoom, url, path) ==
    <<"--disable-external-links", "--disable-internal-links", "--dpi", "96",
      "--image-dpi", "600", "--image-quality", "94", "--margin-bottom", "0.5in",
      "--margin-left", "0.5in", "--margin-right", "0.5in", "--margin-top", "0.5in",
      "--orientation", "Portrait", "--page-size", "Letter", "--zoom", zoom, url, path>>

\* ------------------------------------------------------------------ Init
NoHist ==
    [cached |-> {}, calls |-> [i \in Positions |-> 0], sets |-> [i \in Positions |-> 0],
     status |-> [i \in Positions |-> "none"],
     acquired |-> 0, admitted |-> 0, window |-> 0, resets |-> 0, recent |-> [a \in 0..(TicksPerInterval - 1) |-> 0],
     cpu0 |-> 0, io0 |-> 0, prevAllOk |-> FALSE]

\* no call runs on a clone
NoClone == [pc |-> "idle", wkhtmltopdf |-> FALSE, threads_cpu |-> 0, threads_io |-> 0]

\* Semaphore::new
NewSemaphore ==
    [max_requests_per_second |-> MaxRequestsPerSecond,
     max_threads_cpu |-> MaxThreadsCpu, max_threads_io |-> MaxThreadsIo,
     requests |-> 0, threads_cpu |-> 0, threads_io |-> 0]

\* the caller's slice and the file system before the first call
InitCall ==
    /\ \E n \in 0..MaxDocs : \E wk \in [1..n -> BOOLEAN] :
        /\ documents = [i \in 1..n |-> [path |-> i, wkhtmltopdf |-> wk[i], bytes |-> "None"]]
        /\ storage \in [Positions -> {"Absent", "Unreadable", "cached"}]
        /\ \A p \in Positions : p > n => storage[p] = "Absent"
    /\ mainPc = "idle"
    /\ idx = 0
    /\ children = <<>>
    /\ job = [i \in Positions |-> "none"]
    /\ outcome = [i \in Positions |-> "none"]
    /\ chan2 = <<>>
    /\ results = <<>>
    /\ stopSent = FALSE
    /\ tickerPc = "idle"
    /\ wakeAt = 0
    /\ now = 0
    /\ lastResult = "none"
    /\ callNo = 0
    /\ hist = NoHist

\* ClientBuilder::default and Client::new
InitClient ==
    /\ sem = NewSemaphore
    /\ builder = [in_force |-> {}, given |-> 0]
    /\ conv = <<>>
    /\ InitCall

\* one Client, used by one thread
Init == InitClient /\ clone = NoClone

\* the Client and a clone of it (Client derives Clone, the Semaphore is in an
\* Arc): a second thread has called get_documents on the clone with a long
\* slice of documents none of which is cached, and no destination of this
\* call exists yet
InitClones ==
    /\ InitClient
    /\ \A p \in Positions : storage[p] = "Absent"
    /\ clone = [NoClone EXCEPT !.pc = "inc_requests"]

\* the Client and a clone of it whose call has dispatched all its documents
\* and waits for its jobs, which fill the IO gate or the CPU gate
InitBusy ==
    /\ InitCall
    /\ \A p \in Positions : storage[p] = "Absent"
    /\ builder = [in_force |-> {}, given |-> 0]
    /\ conv = <<>>
    /\ \E c \in {0, MaxThreadsCpu}, i \in {0, MaxThreadsIo} :
        /\ (c = 0) # (i = 0)
        /\ sem = [NewSemaphore EXCEPT !.threads_cpu = c, !.threads_io = i]
        /\ clone = [NoClone EXCEPT !.pc = "recv", !.threads_cpu = c, !.threads_io = i]

\* --------------------------------------------------- the calling thread
\* get_documents is entered: the channels are made, the ticker is spawned,
\* the slice is sorted and the loop starts at the first document.  The
\* caller calls it once, and once more on the same slice when the first
\* call returned Ok(())
StartCall ==
    /\ mainPc = "idle"
    /\ callNo = 0 \/ (callNo = 1 /\ lastResult = "Ok")
    /\ callNo' = callNo + 1
    /\ documents' = sort_by_wkhtmltopdf(documents)
    /\ chan2' = <<>>
    /\ results' = <<>>
    /\ children' = <<>>
    /\ stopSent' = FALSE
    /\ tickerPc' = "sleep"
    /\ wakeAt' = TicksPerInterval
    /\ now' = 0
    /\ idx' = 1
    /\ mainPc' = after(0, documents)
    /\ job' = [i \in Positions |-> "none"]
    /\ outcome' = [i \in Positions |-> "none"]
    /\ hist' = [NoHist EXCEPT
                  !.cpu0 = sem.threads_cpu,
                  !.io0 = sem.threads_io,
                  !.window = sem.requests,
                  !.prevAllOk = callNo > 0 /\ \A i \in 1..Len(documents) : outcome[i] = "Ok"]
    /\ UNCHANGED <<sem, storage, lastResult>>
    /\ UNCHANGED <<clone, builder, conv>>

\* the loop body for a document whose path exists: the file is read, the
\* bytes are attached, the result is sent on s2 and the loop continues
DispatchCached ==
    /\ mainPc = "dispatch"
    /\ path_exists(storage[documents[idx].path])
    /\ LET read == read_file(storage[documents[idx].path]) IN
        /\ documents' = IF read.ok THEN set_bytes(documents, idx, read.bytes) ELSE documents
        /\ outcome' = [outcome EXCEPT ![idx] = IF read.ok THEN "Ok" ELSE "Err"]
        /\ chan2' = Append(chan2, read.ok)
        /\ hist' = [hist EXCEPT !.cached = @ \cup {idx},
                                !.sets[idx] = IF read.ok THEN @ + 1 ELSE @]
    /\ idx' = idx + 1
    /\ mainPc' = after(idx, documents)
    /\ UNCHANGED <<sem, storage, children, job, results, stopSent, tickerPc, wakeAt, now,
                   lastResult, callNo>>
    /\ UNCHANGED <<clone, builder, conv>>

\* the loop body for a document whose path does not exist, up to
\* Semaphore::increment_requests: wait on the condvar, or count and go on.
\* A thread woken from the wait tests the counter again
IncrementRequests ==
    /\ \/ mainPc = "dispatch" /\ ~path_exists(storage[documents[idx].path])
       \/ mainPc = "inc_requests"
    /\ IF requests_free(sem)
       THEN /\ sem' = increment_requests(sem)
            /\ mainPc' = "inc_threads"
            /\ hist' = [hist EXCEPT !.acquired = @ + 1, !.admitted = @ + 1, !.window = @ + 1,
                                    !.recent[0] = @ + 1]
       ELSE /\ mainPc' = "wait_requests"
            /\ UNCHANGED <<sem, hist>>
    /\ UNCHANGED <<documents, storage, idx, children, job, outcome, chan2, results,
                   stopSent, tickerPc, wakeAt, now, lastResult, callNo>>
    /\ UNCHANGED <<clone, builder, conv>>

\* Semaphore::increment_threads_cpu / increment_threads_io, then scope.spawn
\* and children.push
IncrementThreads ==
    /\ mainPc = "inc_threads"
    /\ LET wk == documents[idx].wkhtmltopdf IN
       IF threads_free(sem, wk)
       THEN /\ sem' = increment_threads(sem, wk)
            /\ job' = [job EXCEPT ![idx] = "run"]
            /\ children' = Append(children, idx)
            /\ idx' = idx + 1
            /\ mainPc' = after(idx, documents)
            /\ hist' = [hist EXCEPT !.acquired = @ + 1]
       ELSE /\ mainPc' = IF wk THEN "wait_threads_cpu" ELSE "wait_threads_io"
            /\ UNCHANGED <<sem, job, children, idx, hist>>
    /\ UNCHANGED <<documents, storage, outcome, chan2, results, stopSent, tickerPc, wakeAt,
                   now, lastResult, callNo>>
    /\ UNCHANGED <<clone, builder, conv>>

\* Condvar::wait returns without a notification
SpuriousWakeup ==
    /\ mainPc \in {"wait_requests", "wait_threads_cpu", "wait_threads_io"}
    /\ mainPc' = retest(mainPc)
    /\ UNCHANGED <<sem, documents, storage, idx, children, job, outcome, chan2, results,
                   stopSent, tickerPc, wakeAt, now, lastResult, callNo, hist>>
    /\ UNCHANGED <<clone, builder, conv>>

\* one round of `for _ in children { results.push(r2.recv().unwrap()) }`
Recv ==
    /\ mainPc = "recv"
    /\ Len(results) < Len(children)
    /\ chan2 # <<>>
    /\ results' = Append(results, Head(chan2))
    /\ chan2' = Tail(chan2)
    /\ UNCHANGED <<sem, documents, storage, mainPc, idx, children, job, outcome, stopSent,
                   tickerPc, wakeAt, now, lastResult, callNo, hist>>
    /\ UNCHANGED <<clone, builder, conv>>

\* the receive loop is over: s1.send(()) and the closure returns
SendStop ==
    /\ mainPc = "recv"
    /\ Len(results) = Len(children)
    /\ stopSent' = TRUE
    /\ mainPc' = "join"
    /\ UNCHANGED <<sem, documents, storage, idx, children, job, outcome, chan2, results,
                   tickerPc, wakeAt, now, lastResult, callNo, hist>>
    /\ UNCHANGED <<clone, builder, conv>>

\* crossbeam::scope has joined its threads: the results are reduced and
\* get_documents returns (or the panic of a thread is raised again)
EndCall ==
    /\ mainPc = "join"
    /\ scope_joined(tickerPc, job)
    /\ mainPc' = "idle"
    /\ lastResult' = reduce(results, job)
    /\ UNCHANGED <<sem, documents, storage, idx, children, job, outcome, chan2, results,
                   stopSent, tickerPc, wakeAt, now, callNo, hist>>
    /\ UNCHANGED <<clone, builder, conv>>

\* ------------------------------------------------------- the job threads
\* the thread spawned for position i runs its closure and sends the result:
\* s2.send(result).unwrap() fails, and the thread panics, when r2 has been
\* dropped
JobRun(i) ==
    /\ job[i] = "run"
    /\ \E r \in job_results(documents[i].wkhtmltopdf, storage[documents[i].path]) :
            /\ storage' = [storage EXCEPT ![documents[i].path] = r.file]
            /\ documents' = IF r.set THEN set_bytes(documents, i, r.bytes) ELSE documents
            /\ outcome' = [outcome EXCEPT ![i] = IF r.ok THEN "Ok" ELSE "Err"]
            /\ hist' = [hist EXCEPT !.calls[i] = @ + 1,
                                    !.sets[i] = IF r.set THEN @ + 1 ELSE @,
                                    !.status[i] = r.status]
            /\ IF r2_alive(mainPc)
               THEN /\ chan2' = Append(chan2, r.ok)
                    /\ job' = [job EXCEPT ![i] = "release"]
               ELSE /\ job' = [job EXCEPT ![i] = "panicked"]
                    /\ UNCHANGED chan2
    /\ UNCHANGED <<sem, mainPc, idx, children, results, stopSent, tickerPc, wakeAt,
                   now, lastResult, callNo>>
    /\ UNCHANGED <<clone, builder, conv>>

\* Semaphore::decrement_threads_cpu / decrement_threads_io, the thread ends
JobRelease(i) ==
    /\ job[i] = "release"
    /\ sem' = decrement_threads(sem, documents[i].wkhtmltopdf)
    /\ \E woken \in notify_one(IF documents[i].wkhtmltopdf THEN "threads_cpu" ELSE "threads_io",
                              mainPc, clone.pc) :
            /\ mainPc' = wake(woken, "main", mainPc)
            /\ clone' = [clone EXCEPT !.pc = wake(woken, "clone", @)]
    /\ job' = [job EXCEPT ![i] = "done"]
    /\ UNCHANGED <<documents, storage, idx, children, outcome, chan2, results, stopSent,
                   tickerPc, wakeAt, now, lastResult, callNo, hist, builder, conv>>

\* ----------------------------------------------------- the ticker thread
\* thread::sleep is over: Semaphore::reset_requests.  With `clocked` the
\* sleep lasts until the clock has reached wakeAt; without it the sleep ends
\* at any moment and the length of the sleep is left open
TickerReset(clocked) ==
    /\ tickerPc = "sleep"
    /\ clocked => now >= wakeAt
    /\ sem' = reset_requests(sem)
    /\ \E woken \in notify_one("requests", mainPc, clone.pc) :
            /\ mainPc' = wake(woken, "main", mainPc)
            /\ clone' = [clone EXCEPT !.pc = wake(woken, "clone", @)]
    /\ tickerPc' = "check"
    /\ hist' = [hist EXCEPT !.resets = IF @ < MaxIntervals THEN @ + 1 ELSE @, !.window = 0]
    /\ UNCHANGED <<documents, storage, idx, children, job, outcome, chan2, results,
                   stopSent, wakeAt, now, lastResult, callNo, builder, conv>>

\* r1.try_recv(): leave the loop, or sleep again
TickerCheck ==
    /\ tickerPc = "check"
    /\ IF try_recv(stopSent, mainPc) = "Empty"
       THEN tickerPc' = "sleep" /\ wakeAt' = now + TicksPerInterval
       ELSE tickerPc' = "done" /\ wakeAt' = 0
    /\ UNCHANGED <<sem, documents, storage, mainPc, idx, children, job, outcome, chan2,
                   results, stopSent, now, lastResult, callNo, hist>>
    /\ UNCHANGED <<clone, builder, conv>>

\* the clock of the call advances.  Time that passes while no thread sleeps
\* only lengthens the call, so the clock is advanced while the ticker sleeps
\* and no further than the end of its sleep
Tick ==
    /\ tickerPc = "sleep"
    /\ now < wakeAt
    /\ now < MaxTime
    /\ now' = now + 1
    /\ hist' = [hist EXCEPT !.recent = [a \in 0..(TicksPerInterval - 1) |->
                                          IF a = 0 THEN 0 ELSE hist.recent[a - 1]]]
    /\ UNCHANGED <<sem, documents, storage, mainPc, idx, children, job, outcome, chan2,
                   results, stopSent, tickerPc, wakeAt, lastResult, callNo>>
    /\ UNCHANGED <<clone, builder, conv>>

\* every step of every thread but the clock and the ticker's wake-up
Threads ==
    \/ StartCall
    \/ DispatchCached
    \/ IncrementRequests
    \/ IncrementThreads
    \/ SpuriousWakeup
    \/ Recv
    \/ SendStop
    \/ EndCall
    \/ \E i \in Positions : JobRun(i)
    \/ \E i \in Positions : JobRelease(i)
    \/ TickerCheck

\* the threads under every scheduling, the length of the sleeps left open
Next ==
    \/ Threads
    \/ TickerReset(FALSE)

Spec == Init /\ [][Next]_vars

\* the steps of the calling thread inside get_documents
MainThread ==
    \/ DispatchCached
    \/ IncrementRequests
    \/ IncrementThreads
    \/ Recv
    \/ SendStop
    \/ EndCall

\* the steps of the job threads
JobThreads == \E i \in Positions : JobRun(i) \/ JobRelease(i)

\* the steps of the ticker thread
TickerThread == TickerReset(FALSE) \/ TickerCheck

\* The operating system schedules every thread that can run: the calling
\* thread goes on when it is not blocked, some job thread that has work left
\* goes on (its request or its wkhtmltopdf process comes to an end), and the
\* ticker's sleep ends.  Nothing makes the caller call again, and nothing
\* makes a Condvar::wait return without a notification
Fairness ==
    /\ WF_vars(MainThread)
    /\ WF_vars(JobThreads)
    /\ WF_vars(TickerThread)

SpecFair == Init /\ [][Next]_vars /\ Fairness

\* the threads against the clock
NextClock ==
    \/ Threads
    \/ TickerReset(TRUE)
    \/ Tick

SpecClock == Init /\ [][NextClock]_vars

\* ------------------------------------------------ the call on the clone
\* The call on the clone runs the same loop on the shared Semaphore.  Its
\* documents, channels and results are its own and are left out; what it
\* shares with this call is the three counters and the three condvars.
CloneVars == <<documents, storage, idx, children, job, outcome, chan2, results, stopSent,
               tickerPc, wakeAt, now, lastResult, callNo, hist, builder, conv>>

\* Semaphore::increment_requests by the calling thread of the clone
CloneIncrementRequests ==
    /\ clone.pc = "inc_requests"
    /\ IF requests_free(sem)
       THEN /\ sem' = increment_requests(sem)
            /\ \E wk \in BOOLEAN : clone' = [clone EXCEPT !.pc = "inc_threads", !.wkhtmltopdf = wk]
       ELSE /\ clone' = [clone EXCEPT !.pc = "wait_requests"]
            /\ UNCHANGED sem
    /\ UNCHANGED <<mainPc, CloneVars>>

\* Semaphore::increment_threads_cpu / increment_threads_io by the calling
\* thread of the clone, then scope.spawn
CloneIncrementThreads ==
    /\ clone.pc = "inc_threads"
    /\ IF threads_free(sem, clone.wkhtmltopdf)
       THEN /\ sem' = increment_threads(sem, clone.wkhtmltopdf)
            /\ clone' = IF clone.wkhtmltopdf
                         THEN [clone EXCEPT !.pc = "inc_requests", !.wkhtmltopdf = FALSE,
                                            !.threads_cpu = @ + 1]
                         ELSE [clone EXCEPT !.pc = "inc_requests", !.threads_io = @ + 1]
       ELSE /\ clone' = [clone EXCEPT !.pc = wait_on(IF clone.wkhtmltopdf THEN "threads_cpu"
                                                                            ELSE "threads_io")]
            /\ UNCHANGED sem
    /\ UNCHANGED <<mainPc, CloneVars>>

\* Condvar::wait of the clone's calling thread returns without a notification
CloneSpuriousWakeup ==
    /\ clone.pc \in {"wait_requests", "wait_threads_cpu", "wait_threads_io"}
    /\ clone' = [clone EXCEPT !.pc = retest(@)]
    /\ UNCHANGED <<sem, mainPc, CloneVars>>

\* a job of the clone ends: decrement_threads_cpu / decrement_threads_io
CloneJobRelease(wkhtmltopdf) ==
    /\ IF wkhtmltopdf THEN clone.threads_cpu > 0 ELSE clone.threads_io > 0
    /\ sem' = decrement_threads(sem, wkhtmltopdf)
    /\ \E woken \in notify_one(IF wkhtmltopdf THEN "threads_cpu" ELSE "threads_io",
                              mainPc, clone.pc) :
            /\ mainPc' = wake(woken, "main", mainPc)
            /\ clone' = IF wkhtmltopdf
                         THEN [clone EXCEPT !.pc = wake(woken, "clone", @), !.threads_cpu = @ - 1]
                         ELSE [clone EXCEPT !.pc = wake(woken, "clone", @), !.threads_io = @ - 1]
    /\ UNCHANGED CloneVars

\* the call on the clone has received the outcome of each of its jobs: it
\* stops its ticker and returns once its threads are joined
CloneEndCall ==
    /\ clone.pc = "recv"
    /\ clone.threads_cpu = 0 /\ clone.threads_io = 0
    /\ clone' = [clone EXCEPT !.pc = "idle"]
    /\ UNCHANGED <<sem, mainPc, CloneVars>>

\* the ticker of the call on the clone: Semaphore::reset_requests
CloneTickerReset ==
    /\ clone.pc # "idle"
    /\ sem' = reset_requests(sem)
    /\ \E woken \in notify_one("requests", mainPc, clone.pc) :
            /\ mainPc' = wake(woken, "main", mainPc)
            /\ clone' = [clone EXCEPT !.pc = wake(woken, "clone", @)]
    /\ UNCHANGED CloneVars

\* two calls at once on one Semaphore, the length of the sleeps left open
NextClones ==
    \/ Threads
    \/ TickerReset(FALSE)
    \/ CloneIncrementRequests
    \/ CloneIncrementThreads
    \/ CloneSpuriousWakeup
    \/ \E wkhtmltopdf \in BOOLEAN : CloneJobRelease(wkhtmltopdf)
    \/ CloneTickerReset

SpecClones == InitClones /\ [][NextClones]_vars

\* this call while the jobs of a call on a clone hold thread slots
NextBusy ==
    \/ Threads
    \/ TickerReset(FALSE)
    \/ \E wkhtmltopdf \in BOOLEAN : CloneJobRelease(wkhtmltopdf)
    \/ CloneTickerReset
    \/ CloneEndCall

SpecBusy == InitBusy /\ [][NextBusy]_vars

\* -------------------------------------------------------- ClientBuilder
\* ClientBuilder::set_wkhtmltopdf_setting; set_wkhtmltopdf_settings is a run
\* of them
SetWkhtmltopdfSetting ==
    /\ builder.given < MaxSettings
    /\ \E setting \in Setting :
        builder' = [in_force |-> {x \in builder.in_force : x.variant # setting.variant}
                                    \cup {setting},
                    given |-> builder.given + 1]
    /\ UNCHANGED <<sem, documents, storage, mainPc, idx, children, job, outcome, chan2,
                   results, stopSent, tickerPc, wakeAt, now, lastResult, callNo, hist, clone,
                   conv>>

\* a ClientBuilder before build(), with no documents yet
InitBuilder ==
    /\ Init
    /\ documents = <<>>

\* the settings a ClientBuilder can be given
NextBuilder == SetWkhtmltopdfSetting

SpecBuilder == InitBuilder /\ [][NextBuilder]_vars

\* ---------------------------------------------------- duration_to_millis
\* the whole seconds and the nanoseconds of the Durations that are built
\* with Duration::new: the ends of the word, and the values around the
\* largest number of seconds whose milliseconds fit it
SecsValues == {0, 1, 2, U64Max \div 1000 - 1, U64Max \div 1000, U64Max \div 1000 + 1, U64Max}
NanosValues == {0, 999999, 1000000, 500999999, 999999999}

\* every variable but conv
MillisVars == <<sem, documents, storage, mainPc, idx, children, job, outcome, chan2, results,
                stopSent, tickerPc, wakeAt, now, lastResult, callNo, hist, clone, builder>>

\* `let duration = Duration::from_millis(expected)` for a millisecond count
\* the word can hold
FromMillis ==
    /\ conv = <<>>
    /\ \E x \in 0..U64Max :
        conv' = <<[from_millis |-> TRUE, x |-> x, duration |-> from_millis(x),
                   done |-> FALSE, panicked |-> FALSE, millis |-> 0]>>
    /\ UNCHANGED MillisVars

\* a Duration built by Duration::new
DurationNew ==
    /\ conv = <<>>
    /\ \E secs \in SecsValues, nanos \in NanosValues :
        conv' = <<[from_millis |-> FALSE, x |-> 0, duration |-> [secs |-> secs, nanos |-> nanos],
                   done |-> FALSE, panicked |-> FALSE, millis |-> 0]>>
    /\ UNCHANGED MillisVars

\* `let millis = duration_to_millis(duration)`
DurationToMillis ==
    /\ conv # <<>>
    /\ ~conv[1].done
    /\ \E r \in duration_to_millis_outcomes(conv[1].duration) :
        conv' = <<[conv[1] EXCEPT !.done = TRUE, !.panicked = r.panicked, !.millis = r.millis]>>
    /\ UNCHANGED MillisVars

NextMillis ==
    \/ FromMillis
    \/ DurationNew
    \/ DurationToMillis

SpecMillis == InitBuilder /\ [][NextMillis]_vars

\* ------------------------------------------------------------ properties
Docs == 1..Len(documents)

\* get_documents has been called and has ended
Ended == mainPc = "idle" /\ callNo > 0

RunningJobs(wk) == {i \in Docs : job[i] \in Running /\ documents[i].wkhtmltopdf = wk}

RECURSIVE SumRecent(_)
SumRecent(a) == IF a < 0 THEN 0 ELSE hist.recent[a] + SumRecent(a - 1)

\* C1: get_documents returns Ok only if the outcome of every document is Ok,
\* and returns Err whenever the outcome of some document is Err.
\* (fails: the result of a cache hit is sent on s2 but counts no child, so
\* the receive loop leaves results unread)
C1_ResultIsAggregate ==
    Ended =>
        /\ lastResult = "Ok" => \A i \in Docs : outcome[i] = "Ok"
        /\ (\E i \in Docs : outcome[i] = "Err") => lastResult = "Err"

\* C2: at most max_threads_cpu conversion jobs and at most max_threads_io raw
\* jobs have started and not yet finished.
C2_ThreadBounds ==
    /\ Cardinality(RunningJobs(TRUE)) <= sem.max_threads_cpu
    /\ Cardinality(RunningJobs(FALSE)) <= sem.max_threads_io

\* as many conversion jobs run as the CPU gate admits and the dispatcher
\* waits for one of them to end
C2_Witness ==
    /\ mainPc = "wait_threads_cpu"
    /\ Cardinality(RunningJobs(TRUE)) = sem.max_threads_cpu

\* C3: no more than max_requests_per_second acquisitions of the request gate
\* complete between two resets (or between the start of the call and the
\* first reset), so more admissions than that need a reset.
C3_WindowBound ==
    /\ hist.window <= sem.max_requests_per_second
    /\ hist.admitted > sem.max_requests_per_second => hist.resets >= 1

\* more documents than the maximum have been admitted, after a reset
C3_Witness ==
    /\ hist.admitted > sem.max_requests_per_second
    /\ hist.resets >= 1
    /\ hist.window = sem.max_requests_per_second

\* C4: in every interval of one second (TicksPerInterval consecutive ticks)
\* at most max_requests_per_second requests are admitted.
\* (fails: a reset forgets the admissions of the second before it)
C4_PerSecond == SumRecent(TicksPerInterval - 1) <= sem.max_requests_per_second

\* C5: a call for N documents none of which is cached lasts more than N / m
\* seconds.  The clock counts the sleeps only, so the call lasts longer than
\* `now`: the claim needs m * now >= N * TicksPerInterval.
\* (fails: the ticker tests the stop signal right after a reset, without
\* sleeping once more)
C5_Rate ==
    (Ended /\ callNo = 1 /\ hist.cached = {}) =>
        sem.max_requests_per_second * now >= Len(documents) * TicksPerInterval

\* the loop body has just handled the document at idx as a cache hit
CacheHitStep == mainPc = "dispatch" /\ idx' = idx + 1 /\ idx \in hist'.cached

\* C6 as stated: every document whose path existed when the loop reached it
\* has outcome Ok and the bytes of the file, and no get_url or get_pdf call.
C6_Original ==
    \A i \in hist.cached :
        /\ outcome[i] = "Ok"
        /\ documents[i].bytes = storage[documents[i].path]
        /\ hist.calls[i] = 0

\* C6 amended: for a document whose path existed when the loop reached it, no
\* get_url or get_pdf call is made and no thread is spawned, and handling it
\* changes none of the three counters; if the file can be opened and read the
\* outcome is Ok and the payload is exactly its bytes, otherwise the outcome is
\* the error of the read and the payload is not set.
C6_CacheHit ==
    /\ [](\A i \in hist.cached :
            /\ hist.calls[i] = 0
            /\ job[i] = "none"
            /\ IF storage[documents[i].path] \in Contents
               THEN /\ outcome[i] = "Ok"
                    /\ documents[i].bytes = storage[documents[i].path]
                    /\ hist.sets[i] = 1
               ELSE /\ outcome[i] = "Err"
                    /\ hist.sets[i] = 0)
    /\ [][CacheHitStep => (sem' = sem /\ hist'.acquired = hist.acquired)]_vars

\* a readable file has been attached to its document as a cache hit, and an
\* unreadable one has given its document the error of the read
C6_Witness ==
    /\ \E i \in hist.cached : outcome[i] = "Ok" /\ documents[i].bytes = "cached"
    /\ \E i \in hist.cached : outcome[i] = "Err"

\* C7: when every outcome of the first call was Ok, the second call makes no
\* get_url call, no get_pdf call and no gate acquisition, and when it ends
\* every document has the bytes of its file attached.
C7_Idempotent ==
    (callNo = 2 /\ hist.prevAllOk) =>
        /\ hist.acquired = 0
        /\ \A i \in Docs : hist.calls[i] = 0 /\ job[i] = "none"
        /\ Ended => \A i \in Docs :
                      /\ hist.sets[i] = 1
                      /\ storage[documents[i].path] \in Contents
                      /\ documents[i].bytes = storage[documents[i].path]

\* the second call has ended after a first call that fetched and converted
C7_Witness ==
    /\ callNo = 2 /\ hist.prevAllOk /\ Ended
    /\ \E i \in Docs : documents[i].bytes = "html"
    /\ \E i \in Docs : documents[i].bytes = "pdf"

\* C8: when the call has ended every document has an outcome; a document with
\* outcome Ok has had its payload set, to the bytes at its path; a document
\* with outcome Err has not had its payload set by the call; and once a
\* document has its outcome, nothing another job does changes its outcome or
\* its payload while the call lasts.
C8_Isolation ==
    /\ [](Ended => \A i \in Docs :
            /\ outcome[i] \in {"Ok", "Err"}
            /\ outcome[i] = "Ok" =>
                 hist.sets[i] = 1 /\ documents[i].bytes = storage[documents[i].path]
            /\ outcome[i] = "Err" => hist.sets[i] = 0)
    /\ [][callNo' = callNo =>
            \A i \in Docs : outcome[i] # "none" =>
                outcome'[i] = outcome[i] /\ documents'[i].bytes = documents[i].bytes]_vars

\* the call has ended with one job that succeeded and one that failed
C8_Witness ==
    /\ Ended
    /\ \E i, j \in Docs :
        /\ job[i] = "done" /\ outcome[i] = "Ok" /\ documents[i].bytes = "html"
        /\ job[j] = "done" /\ outcome[j] = "Err" /\ documents[j].bytes = "None"

\* C9: when all threads of a call have ended, the CPU and IO counters are what
\* they were when the call started.
\* (fails: a job whose send fails panics before its decrement)
C9_Released ==
    Ended => sem.threads_cpu = hist.cpu0 /\ sem.threads_io = hist.io0

\* C10: when get_documents has returned, neither the ticker nor any job
\* thread of the call is still running.
C10_AllJoined ==
    mainPc = "idle" =>
        /\ tickerPc \in {"idle", "done"}
        /\ \A i \in Positions : job[i] \notin Running

\* the call has returned after it dispatched a job to each document
C10_Witness ==
    /\ Ended
    /\ Len(documents) = MaxDocs
    /\ \A i \in Docs : job[i] = "done"

\* C11: in every state where the stop signal has been sent, no dispatched job
\* is still running: every job has sent its outcome, and the receive loop has
\* taken as many outcomes as jobs were dispatched.
\* (fails: the outcome of a cache hit is received in place of a job's)
C11_StopAfterAll ==
    stopSent =>
        /\ \A i \in Docs : job[i] # "run"
        /\ Len(results) = Cardinality({i \in Docs : job[i] # "none"})

\* the own gate of the document the dispatch loop is at has a free slot
OwnGateFree ==
    IF documents[idx].wkhtmltopdf THEN sem.threads_cpu < sem.max_threads_cpu
                                  ELSE sem.threads_io < sem.max_threads_io

\* the gate of the other class is full
OtherGateFull ==
    IF documents[idx].wkhtmltopdf THEN sem.threads_io = sem.max_threads_io
                                  ELSE sem.threads_cpu = sem.max_threads_cpu

\* a document after the one the dispatch loop is at, not cached and of class wk
WaitingBehind(wk) ==
    {i \in Docs : i > idx /\ documents[i].wkhtmltopdf = wk
                  /\ ~path_exists(storage[documents[i].path])}

\* C12 as stated: whenever a conversion job waits to start and the request
\* gate and the CPU gate have free capacity, it can be admitted however full
\* the IO gate is: the dispatch loop is never blocked on the IO gate while such
\* a job waits behind it (and the same with the classes exchanged).
C12_Original ==
    /\ ~(/\ mainPc = "wait_threads_io"
         /\ WaitingBehind(TRUE) # {}
         /\ sem.requests < sem.max_requests_per_second
         /\ sem.threads_cpu < sem.max_threads_cpu)
    /\ ~(/\ mainPc = "wait_threads_cpu"
         /\ WaitingBehind(FALSE) # {}
         /\ sem.requests < sem.max_requests_per_second
         /\ sem.threads_io < sem.max_threads_io)

\* C12 amended: documents are admitted one at a time in sorted order; once
\* the dispatch loop has taken the request slot of a document, its next step
\* spawns the job whenever the gate of the document's own class has a free
\* slot, however full the gate of the other class is, and waits otherwise.
C12_OwnGateOnly ==
    [][(mainPc = "inc_threads" /\ mainPc' # mainPc) =>
          IF OwnGateFree
          THEN job'[idx] = "run" /\ idx' = idx + 1
          ELSE job'[idx] = "none" /\ idx' = idx
               /\ mainPc' = wait_on(IF documents[idx].wkhtmltopdf THEN "threads_cpu"
                                                                   ELSE "threads_io")]_vars

\* a conversion job has been admitted while the IO gate is full of raw jobs
C12_Witness ==
    /\ \E i \in Docs : documents[i].wkhtmltopdf /\ job[i] = "run"
    /\ sem.threads_io = sem.max_threads_io
    /\ \E j \in Docs : ~documents[j].wkhtmltopdf /\ job[j] = "run"

\* C13: a reset of the request gate leaves no thread blocked in
\* increment_requests: every waiter is woken and tests the counter again.
\* (fails: reset_requests calls notify_one)
C13_ResetWakesAll ==
    [][(mainPc = "wait_requests" /\ clone.pc = "wait_requests" /\ sem'.requests = 0)
          => (mainPc' = "inc_requests" /\ clone'.pc = "inc_requests")]_vars

\* C14: when a call has ended, the destination of a document whose job failed
\* does not exist, so the next call attempts exactly the failed documents
\* again.
\* (fails: a write that fails after File::create, or a conversion that fails
\* after the tool has written, leaves a file that the next call reads as a
\* cache hit)
C14_FailedLeavesNothing ==
    Ended => \A i \in Docs :
        (outcome[i] = "Err" /\ i \notin hist.cached) =>
            ~path_exists(storage[documents[i].path])

\* the step changes the payload of the document at position i
SetsPayload(i) == callNo' = callNo /\ documents'[i].bytes # documents[i].bytes

\* C15: during one call the payload of a document is set at most once, by
\* the cache-hit read of that document or by the job spawned for it and by
\* nothing else, only when that read or that job has succeeded, and no step
\* sets the payload of two documents.
C15_SetOnce ==
    /\ [](\A i \in Docs :
            /\ hist.sets[i] <= 1
            /\ hist.sets[i] = 1 =>
                  /\ outcome[i] = "Ok"
                  /\ (i \in hist.cached) # (job[i] # "none"))
    /\ [][\A i \in Docs : SetsPayload(i) =>
            /\ hist.sets[i] = 0 /\ hist'.sets[i] = 1
            /\ \/ mainPc = "dispatch" /\ idx = i /\ path_exists(storage[documents[i].path])
               \/ job[i] = "run" /\ job'[i] # "run"
            /\ \A j \in Docs \ {i} : ~SetsPayload(j)]_vars

\* a call has ended in which one payload was set by a cache-hit read and one
\* by a job
C15_Witness ==
    /\ Ended
    /\ \E i \in hist.cached : hist.sets[i] = 1
    /\ \E j \in Docs : job[j] = "done" /\ hist.sets[j] = 1

\* out is in sorted by the flag, false first, equal flags in the order of in
IsStableSortOf(in, out) ==
    /\ Len(out) = Len(in)
    /\ \E f \in [1..Len(in) -> 1..Len(in)] :
        /\ \A j, k \in 1..Len(in) : j # k => f[j] # f[k]
        /\ \A k \in 1..Len(in) : out[k] = in[f[k]]
        /\ \A j, k \in 1..Len(in) : j < k =>
              /\ ~(out[j].wkhtmltopdf /\ ~out[k].wkhtmltopdf)
              /\ out[j].wkhtmltopdf = out[k].wkhtmltopdf => f[j] < f[k]

\* C16: the step that enters get_documents leaves the caller's slice a
\* permutation of what it was, raw documents before conversion documents and
\* each class in its input order; no later step of the call moves a document.
C16_StableSort ==
    [][IF callNo' # callNo
       THEN IsStableSortOf(documents, documents')
       ELSE /\ Len(documents') = Len(documents)
            /\ \A i \in Docs : /\ documents'[i].path = documents[i].path
                                /\ documents'[i].wkhtmltopdf = documents[i].wkhtmltopdf]_vars

\* a call has moved a raw document in front of a conversion document that
\* came before it in the caller's slice
C16_Witness ==
    /\ callNo > 0
    /\ \E j, k \in Docs :
        /\ j < k /\ documents[j].path > documents[k].path
        /\ ~documents[j].wkhtmltopdf /\ documents[k].wkhtmltopdf

\* C17: the argument vector of every wkhtmltopdf process a conversion job
\* has started is to_arguments of the configured Settings followed by the
\* document's url and its path, whatever the Client's zoom string is.
\* (fails: get_pdf passes a fixed list of arguments and never reads Settings)
C17_ArgumentsFromSettings ==
    \A i \in Docs :
        (documents[i].wkhtmltopdf /\ hist.calls[i] > 0) =>
            \E zoom \in DefaultWkhtmltopdfZooms :
                get_pdf_arguments(zoom, url_as_str(documents[i]), path_to_str(documents[i]))
                    = to_arguments(wkhtmltopdf_settings(builder))
                        \o <<url_as_str(documents[i]), path_to_str(documents[i])>>

\* the names of the options that are bare flags, with their values, and of
\* the options that carry a value, with the value formatted, both in the
\* order of the tool's argument vector
FlagOptions(self) ==
    <<[name |-> "--disable-external-links", on |-> self.disable_external_links],
      [name |-> "--disable-javascript", on |-> self.disable_javascript],
      [name |-> "--enable-forms", on |-> self.enable_forms],
      [name |-> "--grayscale", on |-> self.grayscale],
      [name |-> "--low-quality", on |-> self.low_quality],
      [name |-> "--no-background", on |-> self.no_background],
      [name |-> "--no-images", on |-> self.no_images],
      [name |-> "--no-pdf-compression", on |-> self.no_pdf_compression]>>

ValueOptions(self) ==
    <<[name |-> "--dpi", value |-> to_string(self.dpi)],
      [name |-> "--image-dpi", value |-> to_string(self.image_dpi)],
      [name |-> "--image-quality", value |-> to_string(self.image_quality)],
      [name |-> "--javascript-delay", value |-> to_string(duration_to_millis(self.javascript_delay))],
      [name |-> "--margin-bottom", value |-> self.margin_bottom],
      [name |-> "--margin-left", value |-> self.margin_left],
      [name |-> "--margin-right", value |-> self.margin_right],
      [name |-> "--margin-top", value |-> self.margin_top],
      [name |-> "--orientation", value |-> orientation_into(self.orientation)],
      [name |-> "--page-size", value |-> page_size_into(self.page_size)],
      [name |-> "--zoom", value |-> format_zoom(self.zoom)]>>

\* the order of all option names in the argument vector
OptionOrder ==
    <<"--disable-external-links", "--disable-javascript", "--enable-forms", "--dpi",
      "--grayscale", "--image-dpi", "--image-quality", "--low-quality", "--javascript-delay",
      "--margin-bottom", "--margin-left", "--margin-right", "--margin-top", "--no-background",
      "--no-images", "--no-pdf-compression", "--orientation", "--page-size", "--zoom">>

\* the positions of string x in the sequence a
PositionsOf(a, x) == {k \in 1..Len(a) : a[k] = x}

\* C18: in to_arguments of every Settings value the name of a boolean option
\* occurs once if the option is true and not at all otherwise; the name of
\* every option that carries a value occurs exactly once and is followed by
\* the option's current value; nothing else is emitted; and the names that
\* occur are in the same relative order for every Settings value.
C18_ToArguments ==
    LET self == wkhtmltopdf_settings(builder)
        a == to_arguments(self)
        flags == FlagOptions(self)
        values == ValueOptions(self)
        at(x) == CHOOSE k \in PositionsOf(a, x) : TRUE
    IN  /\ \A f \in 1..Len(flags) :
              Cardinality(PositionsOf(a, flags[f].name)) = IF flags[f].on THEN 1 ELSE 0
        /\ \A v \in 1..Len(values) :
              /\ Cardinality(PositionsOf(a, values[v].name)) = 1
              /\ at(values[v].name) < Len(a)
              /\ a[at(values[v].name) + 1] = values[v].value
        /\ Len(a) = 2 * Len(values) + Cardinality({f \in 1..Len(flags) : flags[f].on})
        /\ \A j, k \in 1..Len(OptionOrder) :
              (j < k /\ PositionsOf(a, OptionOrder[j]) # {} /\ PositionsOf(a, OptionOrder[k]) # {})
                  => at(OptionOrder[j]) < at(OptionOrder[k])

\* a builder that was given a flag and a value other than the default
C18_Witness ==
    /\ builder.given = MaxSettings
    /\ wkhtmltopdf_settings(builder).low_quality
    /\ wkhtmltopdf_settings(builder).dpi # DefaultSettings.dpi

\* C19: a raw job that has run has outcome Ok only if a response came with
\* status 200 OK; after any other status, a 204 included, or no response, its
\* outcome is Err, there is no file at its destination and the payload of its
\* document has not been set.
C19_Only200 ==
    \A i \in Docs :
        (~documents[i].wkhtmltopdf /\ hist.calls[i] > 0) =>
            /\ outcome[i] = "Ok" => hist.status[i] = "Ok"
            /\ hist.status[i] # "Ok" =>
                  /\ outcome[i] = "Err"
                  /\ ~path_exists(storage[documents[i].path])
                  /\ hist.sets[i] = 0
                  /\ documents[i].bytes = "None"

\* a call has ended in which one raw job got a status other than 200 and
\* another got 200 and succeeded
C19_Witness ==
    /\ Ended
    /\ \E i, j \in Docs :
        /\ ~documents[i].wkhtmltopdf /\ hist.calls[i] = 1 /\ hist.status[i] = "other"
        /\ outcome[i] = "Err"
        /\ ~documents[j].wkhtmltopdf /\ hist.calls[j] = 1 /\ hist.status[j] = "Ok"
        /\ outcome[j] = "Ok"

\* C20: the send of every job's outcome succeeds: no job thread panics, and
\* no call ends with the panic of one of its threads.
\* (fails: the closure returns and drops r2 while a job still runs, C1)
C20_NoPanic ==
    /\ \A i \in Positions : job[i] # "panicked"
    /\ lastResult # "panic"

\* C21: in every state each of the three counters is between 0 and its
\* maximum; a step that raises a counter raises it by one from below its
\* maximum, a step that lowers a thread counter lowers it by one from above
\* zero, and a step that lowers the request counter leaves it at zero.
C21_CounterBounds ==
    /\ [](/\ sem.requests \in 0..sem.max_requests_per_second
          /\ sem.threads_cpu \in 0..sem.max_threads_cpu
          /\ sem.threads_io \in 0..sem.max_threads_io)
    /\ [][/\ sem'.requests > sem.requests =>
                sem.requests < sem.max_requests_per_second /\ sem'.requests = sem.requests + 1
          /\ sem'.threads_cpu > sem.threads_cpu =>
                sem.threads_cpu < sem.max_threads_cpu /\ sem'.threads_cpu = sem.threads_cpu + 1
          /\ sem'.threads_io > sem.threads_io =>
                sem.threads_io < sem.max_threads_io /\ sem'.threads_io = sem.threads_io + 1
          /\ sem'.threads_cpu < sem.threads_cpu =>
                sem.threads_cpu > 0 /\ sem'.threads_cpu = sem.threads_cpu - 1
          /\ sem'.threads_io < sem.threads_io =>
                sem.threads_io > 0 /\ sem'.threads_io = sem.threads_io - 1
          /\ sem'.requests < sem.requests => sem'.requests = 0]_vars

\* after a reset and the release of one job, the request gate and the gate
\* of a running job are full again and the dispatcher waits on a full gate
C21_Witness ==
    /\ hist.resets >= 1
    /\ \E i \in Docs : job[i] = "done"
    /\ \E j \in Docs : job[j] = "run"
    /\ sem.requests = sem.max_requests_per_second
    /\ \/ sem.threads_cpu = sem.max_threads_cpu
       \/ sem.threads_io = sem.max_threads_io

\* the documents a job has been spawned for in this call
Spawned == {i \in Docs : job[i] # "none"}

\* the dispatch loop holds the request slot of the document at idx and has
\* not yet spawned its job
HoldsRequestSlot == mainPc \in {"inc_threads", "wait_threads_cpu", "wait_threads_io"}

\* C22: a job is spawned only for the document the loop is at, after the
\* loop took the request slot for that document and in the step that takes
\* the slot of the document's class, and the job's work starts after that;
\* the request slot of a conversion document is taken only when every raw
\* document is before it in the slice and is a cache hit or has its job.
C22_AdmissionOrder ==
    /\ [](/\ hist.admitted = Cardinality(Spawned) + IF HoldsRequestSlot THEN 1 ELSE 0
          /\ \A i \in Docs : hist.calls[i] > 0 => i \in Spawned)
    /\ [][/\ hist'.admitted > hist.admitted =>
                /\ mainPc' = "inc_threads" /\ idx' = idx
                /\ job[idx] = "none" /\ idx \notin hist.cached
                /\ sem'.requests = sem.requests + 1
                /\ sem'.threads_cpu = sem.threads_cpu /\ sem'.threads_io = sem.threads_io
                /\ documents[idx].wkhtmltopdf =>
                      \A j \in Docs : ~documents[j].wkhtmltopdf =>
                          j < idx /\ (j \in hist.cached \/ j \in Spawned)
          /\ \A i \in Docs : (job[i] = "none" /\ job'[i] # "none") =>
                /\ i = idx /\ mainPc = "inc_threads"
                /\ job'[i] = "run" /\ hist'.calls[i] = 0
                /\ sem'.requests = sem.requests
                /\ IF documents[i].wkhtmltopdf
                   THEN sem'.threads_cpu = sem.threads_cpu + 1
                   ELSE sem'.threads_io = sem.threads_io + 1]_vars

\* a conversion job runs after a raw job was spawned before it
C22_Witness ==
    /\ \E i, k \in Docs :
        /\ i < k
        /\ ~documents[i].wkhtmltopdf /\ i \in Spawned
        /\ documents[k].wkhtmltopdf /\ job[k] = "run"
    /\ hist.admitted = 2

\* C23: the request counter is the number of request slots taken since the
\* last reset (or since the call started); no step of a job changes it, and
\* the one step that lowers it is the ticker's reset_requests, which leaves
\* it at zero.
C23_OnlyResetLowers ==
    /\ [](sem.requests = hist.window)
    /\ [][/\ \A i \in Docs : (job[i] \in Running /\ job'[i] # job[i]) =>
                sem'.requests = sem.requests
          /\ sem'.requests < sem.requests =>
                /\ tickerPc = "sleep" /\ tickerPc' = "check"
                /\ sem'.requests = 0]_vars

\* a job has failed and ended, and the request slot taken for it is still
\* counted because no reset has come yet
C23_Witness ==
    /\ hist.resets = 0
    /\ \E i \in Docs : job[i] = "done" /\ outcome[i] = "Err"
    /\ sem.requests = sem.max_requests_per_second

\* the dispatch loop has not yet handled every document of the slice
Dispatching ==
    mainPc \in {"dispatch", "inc_requests", "inc_threads", "wait_requests",
                "wait_threads_cpu", "wait_threads_io"}

\* C24: the ticker resets the request gate once after each sleep and sleeps
\* again unless the stop signal has been sent; it has ended only if the stop
\* signal was sent, and never while the dispatch loop still has a document
\* to handle; a dispatcher blocked on the full request gate is admitted in
\* the end.
C24_TickerOutlivesDispatch ==
    /\ [](tickerPc = "done" => stopSent /\ ~Dispatching)
    /\ [][/\ (tickerPc = "sleep" /\ tickerPc' # tickerPc) =>
                tickerPc' = "check" /\ sem'.requests = 0
          /\ (tickerPc = "check" /\ tickerPc' # tickerPc) =>
                tickerPc' = IF stopSent THEN "done" ELSE "sleep"
          /\ (tickerPc \notin {"sleep", "check"} /\ tickerPc' # tickerPc) =>
                callNo' = callNo + 1 /\ tickerPc' = "sleep"]_vars
    /\ (mainPc = "wait_requests") ~> (mainPc = "inc_threads")

\* a dispatcher that was blocked on the request gate has been admitted after
\* a reset, and the ticker is still in its loop
C24_Witness ==
    /\ mainPc = "inc_threads"
    /\ hist.resets >= 1
    /\ hist.admitted = sem.max_requests_per_second + 1
    /\ tickerPc \in {"sleep", "check"}

\* C25: every call that has started ends, by returning or by raising the
\* panic of one of its threads again, with its ticker and every job thread
\* ended.
C25_Terminates ==
    (mainPc # "idle") ~>
        (/\ mainPc = "idle"
         /\ tickerPc = "done"
         /\ \A i \in Positions : job[i] \notin Running)

\* a call for as many documents as the slice can hold, none cached, has
\* ended after the dispatcher waited for a reset
C25_Witness ==
    /\ Ended /\ tickerPc = "done"
    /\ Len(documents) = MaxDocs /\ hist.cached = {}
    /\ hist.admitted = MaxDocs
    /\ hist.resets >= 1
    /\ \A i \in Docs : job[i] \notin Running

\* C26: when a call has ended, at least one full sleep of the ticker has
\* passed since it started and the ticker has reset the request gate at
\* least once, whatever the slice held; the ticker tests the stop signal
\* only after a reset.
C26_AtLeastOneInterval ==
    /\ Ended => now >= TicksPerInterval /\ hist.resets >= 1
    /\ tickerPc \in {"check", "done"} => hist.resets >= 1

\* a call whose documents were all read from disk has ended after exactly
\* one interval and one reset
C26_Witness ==
    /\ Ended
    /\ Docs # {} /\ hist.cached = Docs
    /\ now = TicksPerInterval
    /\ hist.resets = 1

\* the argument that follows the option `name` in the argument vector a
ValueAfter(a, name) == a[(CHOOSE k \in PositionsOf(a, name) : TRUE) + 1]

\* C27: the value emitted after --page-size is the name of the PageSize
\* variant in force and the value after --orientation is the name of the
\* Orientation variant in force; distinct variants give distinct strings.
\* (fails: PageSize::Ledger is emitted as "Ledgar")
C27_OwnNames ==
    LET self == wkhtmltopdf_settings(builder)
        a == to_arguments(self)
    IN  /\ ValueAfter(a, "--page-size") = self.page_size
        /\ ValueAfter(a, "--orientation") = self.orientation
        /\ \A p, q \in PageSizes : page_size_into(p) = page_size_into(q) => p = q
        /\ \A o, q \in Orientations : orientation_into(o) = orientation_into(q) => o = q

\* the milliseconds of a Duration in unbounded integers: its seconds times
\* 1000 plus its nanoseconds divided by 1,000,000, rounded down
MillisOf(duration) == duration.secs * 1000 + duration.nanos \div 1000000

\* C28: a call of duration_to_millis does not overflow and returns the
\* seconds of its Duration times 1000 plus the nanoseconds divided by
\* 1,000,000 and rounded down; for a Duration made by Duration::from_millis(x)
\* that is x.
\* (fails: for a Duration of more than U64Max / 1000 seconds the product
\* does not fit the word)
C28_Millis ==
    \A k \in 1..Len(conv) :
        conv[k].done =>
            /\ ~conv[k].panicked
            /\ conv[k].millis = MillisOf(conv[k].duration)
            /\ conv[k].from_millis => conv[k].millis = conv[k].x

====
